---- MODULE Spec2Model ----
(***************************************************************************)
(* A model of the recommendation backend: the Express server (server.js),  *)
(* the serverless handlers (api/recommend.js and its sibling variants),    *)
(* the process-wide Spotify token cache and the history store.             *)
(*                                                                         *)
(* JavaScript runs one continuation at a time, so every action below is    *)
(* the code between two awaits of one request: it starts when an awaited   *)
(* outbound call settles and runs to the next outbound call or response.   *)
(***************************************************************************)
EXTENDS Integers, Sequences, FiniteSets, TLC

\* ------------------------------------------------------------------ bounds
NReq == 2            \* request slots that can be in flight together
MaxTicks == 2        \* how often the clock advances
MaxRows == 2         \* rows a table of the store may hold

\* ------------------------------------------------------- program constants
SkewMs == 60000
DefaultLifetime == 3600
Retries == 3
SliceLen == 4

TickMs == SkewMs
ShortLifetime == 2 * (SkewMs \div 1000)

\* ----------------------------------------------------------- JS values
Undefined == "undefined"          \* a missing scalar
UndefS == <<"undefined">>         \* a missing string / array, as it prints
Missing == -1                     \* a number the response does not carry
NaN == -2                         \* Date.now() + undefined * 1000
Null == 0                         \* no token
SqlNull == "NULL"                 \* NULL in a column of the store

\* A string is a sequence of words and single spaces.
SP == " "
Empty == << >>
Short == <<"Funny", SP, "kids">>
Long == <<"a", SP, "funny", SP, "action", SP, "movie", SP, "tonight">>

RECURSIVE join(_, _)
\* Array.prototype.join
join(arr, sep) ==
  IF arr = << >> THEN << >>
  ELSE IF Len(arr) = 1 THEN arr[1]
  ELSE arr[1] \o <<sep>> \o join(Tail(arr), sep)

RECURSIVE split(_, _)
\* String.prototype.split on a one-character separator
split(s, sep) ==
  IF \A i \in 1..Len(s) : s[i] # sep THEN <<s>>
  ELSE LET k == CHOOSE i \in 1..Len(s) : s[i] = sep /\ \A j \in 1..(i-1) : s[j] # sep
       IN <<SubSeq(s, 1, k-1)>> \o split(SubSeq(s, k+1, Len(s)), sep)

\* Array.prototype.slice(0, n)
slice(arr, n) == SubSeq(arr, 1, IF Len(arr) < n THEN Len(arr) ELSE n)

\* encodeURIComponent: a space becomes %20, undefined becomes its name
encodeURIComponent(s) == [i \in 1..Len(s) |-> IF s[i] = SP THEN "%20" ELSE s[i]]

\* what the provider reads back out of the URL
decodeURIComponent(s) == [i \in 1..Len(s) |-> IF s[i] = "%20" THEN SP ELSE s[i]]

\* String.prototype.toLowerCase, word by word
toLowerCase(s) ==
  [i \in 1..Len(s) |-> IF s[i] = "Funny" THEN "funny"
                       ELSE IF s[i] = "Comedy" THEN "comedy" ELSE s[i]]

\* String.prototype.includes, on whole words
includes(hay, needle) ==
  \E i \in 1..(Len(hay) + 1) :
    /\ i + Len(needle) - 1 <= Len(hay)
    /\ SubSeq(hay, i, i + Len(needle) - 1) = needle

\* number of whitespace-separated tokens of a string
Tokens(s) == Cardinality({i \in 1..Len(s) : s[i] # SP /\ (i = 1 \/ s[i-1] = SP)})

\* ------------------------------------------------------------------ state
VARIABLES
  variant,                \* which source file is deployed
  env,                    \* process.env: which secrets are set
  spotifyToken,           \* the cached bearer token (Null: none)
  spotifyTokenExpiresAt,  \* its expiry, in ms
  ticks,                  \* the clock, in ticks of TickMs
  req,                    \* the /recommend requests in flight, by slot
  history,                \* the history table
  feedback,               \* the feedback table
  fbreq                   \* the /feedback request in flight

vars ==
  <<variant, env, spotifyToken, spotifyTokenExpiresAt, ticks, req, history,
    feedback, fbreq>>

Variants ==
  {"server", "server2", "recommend", "part_000", "part_001", "part_002",
   "part_003", "part_004"}

Slots == 1..NReq
Now == ticks * TickMs

\* ---------------------------------------------------------------- inputs
Methods == {"POST", "OPTIONS", "GET"}
Inputs == {Empty, Short, Long}
Headers == {Undefined, "song", "tv"}

K1 == << <<"Comedy">> >>
K2 == << <<"Comedy">>, <<"kids">> >>
K5 == << <<"a", SP, "funny", SP, "action">>, <<"movie", SP, "tonight">> >>

\* What the completion's text is: not JSON, or a JSON object with these fields
\* (has: whether it carries the keywords / genres / query field).
NonJSON == [json |-> FALSE, type |-> Undefined, has |-> FALSE, kw |-> << >>, mode |-> Undefined]
Completions ==
  { NonJSON,
    [json |-> TRUE, type |-> "movie",   has |-> TRUE,  kw |-> K1,    mode |-> "genre"],
    [json |-> TRUE, type |-> "tv",      has |-> TRUE,  kw |-> K2,    mode |-> "title"],
    [json |-> TRUE, type |-> "song",    has |-> TRUE,  kw |-> K5,    mode |-> Undefined],
    [json |-> TRUE, type |-> "book",    has |-> TRUE,  kw |-> K2,    mode |-> "title"],
    [json |-> TRUE, type |-> Undefined, has |-> FALSE, kw |-> << >>, mode |-> Undefined] }

IdleReq ==
  [pc |-> "idle", method |-> "none", input |-> Empty, forced |-> Undefined,
   interp |-> NonJSON, json |-> FALSE, type |-> Undefined, keywords |-> UndefS, genres |-> << >>,
   mode |-> Undefined, url |-> "none", query |-> UndefS, genreIds |-> << >>,
   i |-> 0, lastErr |-> "none", calls |-> << >>, failed |-> "none",
   tokCall |-> "none", token |-> Null,
   status |-> 0, error |-> "none", details |-> "none", message |-> "none",
   nrecs |-> Missing, historyId |-> 0]

Lifetimes == {Missing, ShortLifetime}
ItemCounts == {0, 2}
Errors == {"ECONNRESET", "ETIMEDOUT"}

\* The body of a /feedback request. A field the body lacks, or carries as
\* an empty string, is Undefined; a history_id it lacks, or carries as 0, is 0.
HistoryIds == 0..MaxRows
Feedbacks == {Undefined, "like"}
PickedIds == {Undefined, "603"}
PickedTitles == {Undefined, "Heat"}
PickedMedia == {"movie"}

IdleFb ==
  [pc |-> "idle", history_id |-> 0, feedback |-> Undefined,
   picked_id |-> Undefined, picked_title |-> Undefined, picked_medium |-> Undefined,
   status |-> 0, error |-> "none"]

\* The requests and completions a deployment is sent: everything, or only
\* requests for songs (the ones that reach the token cache).
AllTraffic ==
  [methods |-> Methods, inputs |-> Inputs, headers |-> Headers,
   completions |-> Completions, items |-> ItemCounts]
MusicTraffic ==
  [methods |-> {"POST"}, inputs |-> {Long}, headers |-> {"song"},
   completions |-> {c \in Completions : c.type = "song"}, items |-> {2}]
StoreTraffic ==
  [methods |-> {"POST"}, inputs |-> {Empty, Short}, headers |-> {Undefined},
   completions |-> {c \in Completions : ~c.json \/ c.type = "song"},
   items |-> {2}]

\* ------------------------------------------------------------ the variants
HasClassifier == variant # "part_003"
UsesTokenCache == variant \in {"server", "server2", "part_001", "part_003"}
ChecksCredentials == variant \in {"server", "server2", "part_003"}
ReadsHeader == variant \in {"part_001", "part_003"}

\* ------------------------------------------------------------- responses
\* res.status(status).json(...) / .end(): the request is answered
Respond(rec, status, error, details, message, nrecs) ==
  [rec EXCEPT !.pc = "done", !.status = status, !.error = error,
              !.details = details, !.message = message, !.nrecs = nrecs]

\* the handler's outer catch
Catch(rec, msg) ==
  IF variant \in {"server2", "part_001", "part_003"}
  THEN Respond(rec, 500, msg, "none", "none", Missing)
  ELSE Respond(rec, 500, "Internal server error", msg, "none", Missing)

\* an outbound call is issued and awaited
Call(rec, name) == [rec EXCEPT !.pc = name, !.calls = Append(@, name)]

\* ---------------------------------------------------------- token cache
\* mutants of CacheFresh: twice the skew; the expiry never looked at
CacheFreshDoubleSkew == spotifyToken # Null /\ Now < spotifyTokenExpiresAt - 2 * SkewMs
CacheFreshForever == spotifyToken # Null

\* getSpotifyToken's first test: the cached token is still good
CacheFresh == spotifyToken # Null /\ Now < spotifyTokenExpiresAt - SkewMs

\* the expiry getSpotifyToken stores for a response carrying expires_in
ExpiresAt(expires_in) ==
  IF variant = "server"
  THEN Now + (IF expires_in = Missing THEN DefaultLifetime ELSE expires_in) * 1000
  ELSE IF expires_in = Missing THEN NaN ELSE Now + expires_in * 1000

CredentialsSet == env.clientId /\ env.clientSecret

CredentialMessage ==
  IF variant = "server" THEN "Spotify client id/secret not set"
  ELSE "Spotify credentials missing"

\* ------------------------------------------------------------ music path
\* the query of the track search
MusicQuery(rec) ==
  IF variant = "server"
  THEN encodeURIComponent(join(slice(split(rec.keywords, SP), SliceLen), SP))
  ELSE IF variant = "part_001" THEN encodeURIComponent(join(rec.genres, SP))
  ELSE IF variant = "part_003" THEN encodeURIComponent(rec.input)
  ELSE encodeURIComponent(rec.keywords)

\* axios.get on the track search endpoint
SearchCall(rec) ==
  Call([rec EXCEPT !.url = "spotify/search",
                   !.query = decodeURIComponent(MusicQuery(rec))], "search")

\* type === "song": getSpotifyToken() up to its await, or the inline exchange
StartMusic(rec) ==
  IF ~UsesTokenCache THEN Call(rec, "token")
  ELSE IF CacheFresh
  THEN SearchCall([rec EXCEPT !.tokCall = "cached", !.token = spotifyToken])
  ELSE IF ChecksCredentials /\ ~CredentialsSet
  THEN Catch([rec EXCEPT !.tokCall = "nocreds"], CredentialMessage)
  ELSE Call([rec EXCEPT !.tokCall = "exchange"], "token")

\* ---------------------------------------------------------- catalog path
MOVIE_GENRES == [g \in {"comedy", "horror"} |-> IF g = "comedy" THEN 35 ELSE 27]
TV_GENRES == [g \in {"comedy", "kids"} |-> IF g = "comedy" THEN 35 ELSE 10762]

RECURSIVE convertGenresToIds(_, _)
convertGenresToIds(type, genres) ==
  IF genres = << >> THEN << >>
  ELSE LET lookup == IF type = "tv" THEN TV_GENRES ELSE MOVIE_GENRES
           g == toLowerCase(genres[1])
           rest == convertGenresToIds(type, Tail(genres))
       IN IF Len(g) = 1 /\ g[1] \in DOMAIN lookup THEN <<lookup[g[1]]>> \o rest ELSE rest

\* the text-search URL and its query
SearchUrl(rec) == IF rec.type = "tv" THEN "search/tv" ELSE "search/movie"

CatalogQuery(rec) ==
  IF variant = "server"
  THEN encodeURIComponent(join(slice(split(rec.keywords, SP), SliceLen), SP))
  ELSE IF variant = "part_003" THEN encodeURIComponent(rec.input)
  ELSE encodeURIComponent(rec.keywords)

\* the GET of a text search
TextSearch(rec) ==
  Call([rec EXCEPT !.url = SearchUrl(rec),
                   !.query = decodeURIComponent(CatalogQuery(rec))], "catalog")

\* the GET of a genre-filtered discovery
Discover(rec, ids) ==
  Call([rec EXCEPT !.url = IF rec.type = "movie" THEN "discover/movie" ELSE "discover/tv",
                   !.query = Empty, !.genreIds = ids], "catalog")

\* the movie / TV branch up to its first await
StartCatalog(rec) ==
  IF variant = "part_001" THEN Discover(rec, convertGenresToIds(rec.type, rec.genres))
  ELSE IF variant = "part_002" \/ (variant = "recommend" /\ rec.mode = "genre")
  THEN Call(rec, "genrelist")
  ELSE TextSearch(rec)

\* mutant of SelectProvider: the two paths the wrong way round
SelectProviderSwapped(rec) ==
  IF rec.type = "song" THEN StartCatalog(rec) ELSE StartMusic(rec)

\* provider selection
SelectProvider(rec) ==
  IF rec.type = "song" THEN StartMusic(rec) ELSE StartCatalog(rec)

\* mutant of Finish: the server answers without the history insert
FinishWithoutSave(rec, n) == Respond(rec, 200, "none", "none", "none", n)

\* after the fetch: the response, or for the server the history insert
Finish(rec, n) ==
  IF variant = "server" THEN Call([rec EXCEPT !.nrecs = n], "save")
  ELSE IF variant \in {"server2", "part_001", "part_003"}
  THEN Respond(rec, 200, "none", "none", "none", n)
  ELSE IF n = 0 THEN Respond(rec, 200, "none", "none", "No results found", Missing)
  ELSE Respond(rec, 200, "none", "none", "none", n)

\* the inner try/catch around a fetch logs the error and goes on
Swallows == variant \in {"recommend", "part_004"}

\* a failed provider call
Thrown(rec, call, e) ==
  IF Swallows THEN Finish([rec EXCEPT !.failed = call], 0)
  ELSE Catch([rec EXCEPT !.failed = call], e)

\* -------------------------------------------------------- classification
Media == {"movie", "tv", "song"}

\* mutant of Parse: the catch's default medium is tv
ParseDefaultTv(c, input) ==
  IF c.json THEN c
  ELSE [json |-> FALSE, type |-> "tv", has |-> TRUE, kw |-> <<input>>,
        mode |-> IF variant = "recommend" THEN "title" ELSE Undefined]

\* JSON.parse of the completion's text, or the catch's default
Parse(c, input) ==
  IF c.json THEN c
  ELSE [json |-> FALSE, type |-> "movie", has |-> TRUE, kw |-> <<input>>,
        mode |-> IF variant = "recommend" THEN "title" ELSE Undefined]

\* mutant of TypeOf: the classifier's medium comes before the header's
TypeOfClassifierFirst(interp, forced) ==
  IF interp.type # Undefined THEN interp.type
  ELSE IF forced # Undefined THEN forced ELSE "movie"

\* the medium the handler goes on with
TypeOf(interp, forced) ==
  IF variant \in {"server", "server2"}
  THEN (IF interp.type = Undefined THEN "movie" ELSE interp.type)
  ELSE IF variant = "part_001"
  THEN (IF forced # Undefined THEN forced
        ELSE IF interp.type = Undefined THEN "movie" ELSE interp.type)
  ELSE IF interp.type \in Media THEN interp.type ELSE "movie"

ModeOf(interp) ==
  IF variant # "recommend" THEN Undefined
  ELSE IF interp.mode \in {"genre", "title"} THEN interp.mode ELSE "title"

\* the keywords string (server.js) or interpretation.query (the handlers)
KeywordsOf(interp, input) ==
  IF variant = "server"
  THEN (IF interp.has /\ join(interp.kw, SP) # Empty THEN join(interp.kw, SP) ELSE input)
  ELSE IF variant = "server2"
  THEN join(IF interp.has THEN interp.kw ELSE <<input>>, SP)
  ELSE IF variant = "part_001" THEN UndefS
  ELSE IF interp.has THEN join(interp.kw, SP) ELSE UndefS

GenresOf(interp) ==
  IF variant = "part_001" /\ interp.has THEN interp.kw ELSE << >>

\* the handler from the completion's text to its next await
Classified(rec, c) ==
  LET interp == Parse(c, rec.input)
      rec1 == [rec EXCEPT !.interp = interp, !.json = c.json,
                          !.type = TypeOf(interp, rec.forced),
                          !.mode = ModeOf(interp),
                          !.keywords = KeywordsOf(interp, rec.input),
                          !.genres = GenresOf(interp)]
  IN IF variant = "server" /\ ~env.tmdbKey
     THEN Respond(rec1, 500, "TMDB_API_KEY not set in .env", "none", "none", Missing)
     ELSE SelectProvider(rec1)

\* mutant of NoInput: the input is never looked at
NoInputUnchecked(input) == FALSE

\* if (!input)
NoInput(input) == input = Empty

\* the handler from the request to its first await
Handle(m, input, header) ==
  LET rec == [IdleReq EXCEPT !.method = m, !.input = input, !.forced = header]
  IN IF variant = "server" /\ m = "OPTIONS"
     THEN Respond(rec, 204, "none", "none", "none", Missing)
     ELSE IF variant = "server" /\ m # "POST"
     THEN Respond(rec, 404, "none", "none", "none", Missing)
     ELSE IF m = "OPTIONS" THEN Respond(rec, 200, "none", "none", "none", Missing)
     ELSE IF m # "POST" THEN Respond(rec, 405, "Only POST allowed", "none", "none", Missing)
     ELSE IF NoInput(input) THEN Respond(rec, 400, "No input provided", "none", "none", Missing)
     ELSE IF variant = "part_003"
     THEN SelectProvider([rec EXCEPT !.type = IF header # Undefined THEN header ELSE "movie",
                                     !.keywords = input])
     ELSE Call(rec, "completion")

\* ---------------------------------------------------------------- actions
Init ==
  /\ variant \in Variants
  /\ env \in [clientId : BOOLEAN, clientSecret : BOOLEAN, tmdbKey : BOOLEAN]
  /\ spotifyToken = Null
  /\ spotifyTokenExpiresAt = 0
  /\ ticks = 0
  /\ req = [r \in Slots |-> IdleReq]
  /\ history = << >>
  /\ feedback = << >>
  /\ fbreq = IdleFb

Cache == <<spotifyToken, spotifyTokenExpiresAt>>

\* a request arrives
Receive(r, traffic) ==
  /\ req[r].pc = "idle"
  /\ \A q \in 1..(r-1) : req[q].pc # "idle"     \* the lowest free slot
  /\ \E m \in traffic.methods, input \in traffic.inputs,
        header \in IF ReadsHeader THEN traffic.headers ELSE {Undefined} :
       /\ m # "POST" => input = Empty /\ header = Undefined
       /\ req' = [req EXCEPT ![r] = Handle(m, input, header)]
  /\ UNCHANGED <<variant, env, Cache, ticks, history, feedback, fbreq>>

\* the completion call settles
CompletionDone(r, traffic) ==
  /\ req[r].pc = "completion"
  /\ \E ok \in BOOLEAN, c \in traffic.completions, n \in ItemCounts, e \in {"ETIMEDOUT"} :
       req' = [req EXCEPT ![r] =
                 IF ~ok THEN Catch([req[r] EXCEPT !.failed = "completion"], e)
                 ELSE IF variant = "part_000"
                 THEN Respond(req[r], 200, "none", "none", "none", n)
                 ELSE Classified(req[r], c)]
  /\ UNCHANGED <<variant, env, Cache, ticks, history, feedback, fbreq>>

\* mutant of TokenDone: a failed exchange empties the cache
TokenDoneForgets(r) ==
  /\ req[r].pc = "token"
  /\ \E ok \in BOOLEAN, expires_in \in Lifetimes, e \in {"ETIMEDOUT"} :
       /\ ok => CredentialsSet
       /\ IF ok /\ UsesTokenCache
          THEN /\ spotifyToken' = r
               /\ spotifyTokenExpiresAt' = ExpiresAt(expires_in)
               /\ req' = [req EXCEPT ![r] =
                            SearchCall([req[r] EXCEPT !.tokCall = "exchanged",
                                                      !.token = spotifyToken'])]
          ELSE /\ spotifyToken' = Null
               /\ spotifyTokenExpiresAt' = 0
               /\ req' = [req EXCEPT ![r] =
                            IF ok THEN SearchCall([req[r] EXCEPT !.token = r])
                            ELSE Thrown(req[r], "token", e)]
  /\ UNCHANGED <<variant, env, ticks, history, feedback, fbreq>>

\* the token exchange settles
TokenDone(r) ==
  /\ req[r].pc = "token"
  /\ \E ok \in BOOLEAN, expires_in \in Lifetimes, e \in {"ETIMEDOUT"} :
       /\ ok => CredentialsSet
       /\ IF ok /\ UsesTokenCache
          THEN /\ spotifyToken' = r
               /\ spotifyTokenExpiresAt' = ExpiresAt(expires_in)
               /\ req' = [req EXCEPT ![r] =
                            SearchCall([req[r] EXCEPT !.tokCall = "exchanged",
                                                      !.token = spotifyToken'])]
          ELSE /\ UNCHANGED Cache
               /\ req' = [req EXCEPT ![r] =
                            IF ok THEN SearchCall([req[r] EXCEPT !.token = r])
                            ELSE Thrown(req[r], "token", e)]
  /\ UNCHANGED <<variant, env, ticks, history, feedback, fbreq>>

\* the track search settles
SearchDone(r, traffic) ==
  /\ req[r].pc = "search"
  /\ \E ok \in BOOLEAN, n \in traffic.items, e \in {"ETIMEDOUT"} :
       req' = [req EXCEPT ![r] =
                 IF ok THEN Finish(req[r], n) ELSE Thrown(req[r], "search", e)]
  /\ UNCHANGED <<variant, env, Cache, ticks, history, feedback, fbreq>>

GenreLists == { << >>, << <<"Comedy">> >> }

\* genres.find(...) of the handler
Match(list, query) ==
  IF variant = "recommend"
  THEN \E k \in 1..Len(list) : includes(toLowerCase(list[k]), toLowerCase(query))
  ELSE \E k \in 1..Len(list) :
         \/ toLowerCase(list[k]) = toLowerCase(query)
         \/ includes(toLowerCase(query), toLowerCase(list[k]))

\* the genre list lookup settles
GenreListDone(r) ==
  /\ req[r].pc = "genrelist"
  /\ \E ok \in BOOLEAN, list \in GenreLists, e \in {"ETIMEDOUT"} :
       /\ ok => env.tmdbKey
       /\ req' = [req EXCEPT ![r] =
                    IF ~ok THEN Catch([req[r] EXCEPT !.failed = "genrelist"], e)
                    ELSE IF list # << >> /\ req[r].keywords = UndefS
                    THEN Catch(req[r], "TypeError")
                    ELSE IF Match(list, req[r].keywords)
                    THEN Discover(req[r], <<35>>)
                    ELSE TextSearch(req[r])]
  /\ UNCHANGED <<variant, env, Cache, ticks, history, feedback, fbreq>>

\* mutant of ShouldRetry: every error is retried
ShouldRetryAnyError(rec, e) == variant = "server" /\ rec.i < Retries - 1

\* safeGet's catch: wait and go round the loop again
ShouldRetry(rec, e) ==
  variant = "server" /\ e = "ECONNRESET" /\ rec.i < Retries - 1

\* one attempt of the catalog GET settles
CatalogDone(r) ==
  /\ req[r].pc = "catalog"
  /\ \E ok \in BOOLEAN, n \in ItemCounts, e \in Errors :
       /\ ok => env.tmdbKey
       /\ req' = [req EXCEPT ![r] =
                    IF ok THEN Finish(req[r], n)
                    ELSE IF ShouldRetry(req[r], e)
                    THEN [req[r] EXCEPT !.pc = "sleep", !.lastErr = e]
                    ELSE Thrown([req[r] EXCEPT !.lastErr = e], "catalog", e)]
  /\ UNCHANGED <<variant, env, Cache, ticks, history, feedback, fbreq>>

\* safeGet's delay is over: the next attempt
SleepDone(r) ==
  /\ req[r].pc = "sleep"
  /\ req' = [req EXCEPT ![r] =
               Call([req[r] EXCEPT !.i = @ + 1, !.lastErr = "none"], "catalog")]
  /\ UNCHANGED <<variant, env, Cache, ticks, history, feedback, fbreq>>

\* the history insert settles
SaveDone(r) ==
  /\ req[r].pc = "save"
  /\ \E ok \in BOOLEAN :
       IF ok
       THEN /\ Len(history) < MaxRows
            /\ history' = Append(history,
                 [id |-> Len(history) + 1, type |-> req[r].type, query |-> req[r].input,
                  picked_title |-> SqlNull, picked_id |-> SqlNull,
                  picked_medium |-> SqlNull])
            /\ req' = [req EXCEPT ![r] =
                 [Respond(req[r], 200, "none", "none", "none", req[r].nrecs)
                    EXCEPT !.historyId = Len(history) + 1]]
       ELSE /\ UNCHANGED history
            /\ req' = [req EXCEPT ![r] = Catch([req[r] EXCEPT !.failed = "save"], "SQLITE_ERROR")]
  /\ UNCHANGED <<variant, env, Cache, ticks, feedback, fbreq>>

\* the response is sent and the request discarded
Release(r) ==
  /\ req[r].pc = "done"
  /\ req' = [req EXCEPT ![r] = IdleReq]
  /\ UNCHANGED <<variant, env, Cache, ticks, history, feedback, fbreq>>

\* time passes
Tick ==
  /\ UsesTokenCache          \* Date.now() is read by getSpotifyToken alone
  /\ ticks < MaxTicks
  /\ ticks' = ticks + 1
  /\ UNCHANGED <<variant, env, Cache, req, history, feedback, fbreq>>

\* Requests served one at a time, of every kind.
Next ==
  \/ Receive(1, AllTraffic)
  \/ CompletionDone(1, AllTraffic)
  \/ TokenDone(1)
  \/ SearchDone(1, AllTraffic)
  \/ GenreListDone(1)
  \/ CatalogDone(1)
  \/ SleepDone(1)
  \/ SaveDone(1)
  \/ Release(1)
  \/ Tick

Spec == Init /\ [][Next]_vars

\* Requests for songs served concurrently by a deployment that caches the token.
InitMusic == Init /\ UsesTokenCache /\ env.tmdbKey

NextMusic ==
  \/ \E r \in Slots : Receive(r, MusicTraffic)
  \/ \E r \in Slots : CompletionDone(r, MusicTraffic)
  \/ \E r \in Slots : TokenDone(r)
  \/ \E r \in Slots : SearchDone(r, MusicTraffic)
  \/ \E r \in Slots : SaveDone(r)
  \/ \E r \in Slots : Release(r)
  \/ Tick

SpecMusic == InitMusic /\ [][NextMusic]_vars

\* --------------------------------------------------------- POST /feedback
\* if (!history_id || !feedback)
BadFeedback(body) == body.history_id = 0 \/ body.feedback = Undefined

\* mutant of Picked: the history row is updated for every feedback
PickedAlways(body) == TRUE

\* if (picked_id || picked_title)
Picked(body) == body.picked_id # Undefined \/ body.picked_title # Undefined

\* x || null
OrNull(x) == IF x = Undefined THEN SqlNull ELSE x

\* UPDATE history SET picked_title = ?, picked_id = ?, picked_medium = ? WHERE id = ?
UpdateHistory(rows, body) ==
  [k \in 1..Len(rows) |->
     IF rows[k].id = body.history_id
     THEN [rows[k] EXCEPT !.picked_title = OrNull(body.picked_title),
                          !.picked_id = OrNull(body.picked_id),
                          !.picked_medium = OrNull(body.picked_medium)]
     ELSE rows[k]]

\* res.status(status).json(...) of the feedback route
FbRespond(rec, status, error) == [rec EXCEPT !.pc = "done", !.status = status, !.error = error]

\* a feedback request arrives
FeedbackReceive ==
  /\ variant = "server"
  /\ fbreq.pc = "idle"
  /\ \E id \in HistoryIds, f \in Feedbacks, pid \in PickedIds, title \in PickedTitles,
        medium \in PickedMedia :
       LET body == [IdleFb EXCEPT !.history_id = id, !.feedback = f, !.picked_id = pid,
                                  !.picked_title = title, !.picked_medium = medium]
       IN fbreq' = IF BadFeedback(body)
                   THEN FbRespond(IdleFb, 400, "history_id and feedback required")
                   ELSE [body EXCEPT !.pc = "insert"]
  /\ UNCHANGED <<variant, env, Cache, ticks, req, history, feedback>>

\* the INSERT INTO feedback settles
FeedbackInsertDone ==
  /\ fbreq.pc = "insert"
  /\ \E ok \in BOOLEAN :
       IF ok
       THEN /\ Len(feedback) < MaxRows
            /\ feedback' = Append(feedback,
                 [id |-> Len(feedback) + 1, history_id |-> fbreq.history_id,
                  feedback |-> fbreq.feedback])
            /\ fbreq' = IF Picked(fbreq) THEN [fbreq EXCEPT !.pc = "update"]
                        ELSE FbRespond(fbreq, 200, "none")
       ELSE /\ UNCHANGED feedback
            /\ fbreq' = FbRespond(fbreq, 500, "Could not save feedback")
  /\ UNCHANGED <<variant, env, Cache, ticks, req, history>>

\* the UPDATE history settles
FeedbackUpdateDone ==
  /\ fbreq.pc = "update"
  /\ \E ok \in BOOLEAN :
       IF ok
       THEN /\ history' = UpdateHistory(history, fbreq)
            /\ fbreq' = FbRespond(fbreq, 200, "none")
       ELSE /\ UNCHANGED history
            /\ fbreq' = FbRespond(fbreq, 500, "Could not save feedback")
  /\ UNCHANGED <<variant, env, Cache, ticks, req, feedback>>

\* the feedback response is sent
FeedbackRelease ==
  /\ fbreq.pc = "done"
  /\ fbreq' = IdleFb
  /\ UNCHANGED <<variant, env, Cache, ticks, req, history, feedback>>

\* The Express server with its store, deployed without the Spotify secrets
\* (a song request fails in getSpotifyToken): a recommendation request and a
\* feedback request served concurrently.
InitStore == Init /\ variant = "server" /\ env.tmdbKey /\ ~env.clientId /\ ~env.clientSecret

NextStore ==
  \/ Receive(1, StoreTraffic)
  \/ CompletionDone(1, StoreTraffic)
  \/ CatalogDone(1)
  \/ SleepDone(1)
  \/ SaveDone(1)
  \/ Release(1)
  \/ FeedbackReceive
  \/ FeedbackInsertDone
  \/ FeedbackUpdateDone
  \/ FeedbackRelease

SpecStore == InitStore /\ [][NextStore]_vars

\* ================================================================ claims
\* what a response carries as its error text
Carries(q, msg) == q.error = msg \/ q.details = msg

\* how many times the catalog GET was attempted for a request
Attempts(q) == Cardinality({k \in 1..Len(q.calls) : q.calls[k] = "catalog"})

\* the step in which request r calls getSpotifyToken / gets its token back
GetTokenCalled(r) == req[r].tokCall = "none" /\ req'[r].tokCall # "none"
GetTokenReturned(r) == UsesTokenCache /\ req[r].token = Null /\ req'[r].token # Null

\* C1: at most one token-exchange call started by getSpotifyToken is in
\* flight at any time (two callers that find no cached token share one).
C1_SingleFlight ==
  Cardinality({r \in Slots : req[r].pc = "token" /\ req[r].tokCall = "exchange"}) <= 1

\* C2: a getSpotifyToken call made while a token is cached and the time is
\* before its expiry less 60 s returns that token, makes no token-exchange
\* call and leaves the cached token and expiry as they were.
C2_FreshTokenServedFromCache ==
  [][\A r \in Slots :
       (GetTokenCalled(r) /\ spotifyToken # Null
          /\ Now < spotifyTokenExpiresAt - 60000)
       => /\ req'[r].tokCall = "cached"
          /\ req'[r].token = spotifyToken
          /\ \A k \in 1..Len(req'[r].calls) : req'[r].calls[k] # "token"
          /\ spotifyToken' = spotifyToken
          /\ spotifyTokenExpiresAt' = spotifyTokenExpiresAt]_vars

C2_Witness ==
  \E r \in Slots :
    /\ req[r].tokCall = "cached" /\ req[r].pc = "search"
    /\ req[r].token = spotifyToken
    /\ \A k \in 1..Len(req[r].calls) : req[r].calls[k] # "token"

\* C3: whenever getSpotifyToken hands a token back, from the cache or from
\* an exchange, it is the token the cache holds and the expiry the cache
\* states for it is still in the future.
C3_NeverReturnsExpired ==
  [][\A r \in Slots :
       GetTokenReturned(r)
       => /\ req'[r].token = spotifyToken'
          /\ ~(spotifyTokenExpiresAt' # NaN /\ spotifyTokenExpiresAt' <= Now')]_vars

C3_Witness ==
  \E r \in Slots :
    /\ req[r].tokCall = "cached" /\ req[r].token # r
    /\ ticks >= 1 /\ Now < spotifyTokenExpiresAt

\* C4: a song request made while a music secret is unset and no cached
\* token serves it ends with status 500 carrying the credential error, and
\* neither a token exchange nor a track search was called for it.
C4_MissingSecretsFailFast ==
  \A r \in Slots :
    (/\ req[r].pc = "done" /\ req[r].type = "song" /\ req[r].method = "POST"
     /\ env.tmdbKey /\ ~CredentialsSet /\ req[r].tokCall # "cached"
     /\ req[r].failed # "completion")
    => /\ req[r].status = 500
       /\ Carries(req[r], CredentialMessage)
       /\ \A k \in 1..Len(req[r].calls) : req[r].calls[k] \notin {"token", "search"}

\* C5: safeGet goes round again only after a connection reset and never
\* makes more than 3 attempts; any other error, and a reset on the third
\* attempt, ends the request with status 500 carrying that error.
UsesSafeGet == variant \in {"server", "server2", "part_001", "part_003"}

C5_RetryOnlyOnReset ==
  \A r \in Slots :
    LET q == req[r] IN
    /\ Attempts(q) <= 3
    /\ q.pc = "sleep" => q.lastErr = "ECONNRESET" /\ Attempts(q) <= 2
    /\ (UsesSafeGet /\ q.lastErr # "none" /\ q.pc # "sleep")
       => /\ q.pc = "done" /\ q.status = 500 /\ Carries(q, q.lastErr)
          /\ q.lastErr # "ECONNRESET" => q.calls[Len(q.calls)] = "catalog"
          /\ (q.lastErr = "ECONNRESET" /\ variant = "server") => Attempts(q) = 3

C5_Witness ==
  \E r \in Slots :
    /\ req[r].pc = "done" /\ req[r].lastErr = "ECONNRESET"
    /\ Attempts(req[r]) = 3 /\ req[r].status = 500

\* C6: a POST whose input is missing or empty ends with status 400 and the
\* error "No input provided", and no call was made for it.
C6_EmptyInputRejected ==
  \A r \in Slots :
    (req[r].pc # "idle" /\ req[r].method = "POST" /\ req[r].input = Empty)
    => /\ req[r].pc = "done" /\ req[r].status = 400
       /\ req[r].error = "No input provided"
       /\ req[r].calls = << >>

C6_Witness ==
  \E r \in Slots :
    /\ req[r].pc = "done" /\ req[r].method = "POST" /\ req[r].input = Empty
    /\ req[r].status = 400 /\ req[r].calls = << >>

\* C7: the medium of a request that has reached a provider, the one its
\* response reports, is one of movie, tv, song.
C7_MediumIsRecognised ==
  \A r \in Slots :
    (HasClassifier /\ req[r].url # "none") => req[r].type \in {"movie", "tv", "song"}

\* C8: the query of every catalog or track search call has at most 4
\* whitespace-separated tokens.
C8_QueryAtMostFourTokens ==
  \A r \in Slots :
    (variant \in {"server", "server2", "recommend"} /\ req[r].url # "none")
    => Tokens(req[r].query) <= 4

\* C9: when the request carries a medium header, the medium the handler goes
\* on with is the header's, and the genres it uses are the classifier's.
C9_ForcedMediumWins ==
  \A r \in Slots :
    LET q == req[r] IN
    (ReadsHeader /\ q.forced # Undefined /\ q.type # Undefined)
    => /\ q.type = q.forced
       /\ variant = "part_001"
          => /\ q.genres = (IF q.interp.has THEN q.interp.kw ELSE << >>)
             /\ q.url = "spotify/search" => q.query = join(q.genres, SP)

C9_Witness ==
  \E r \in Slots :
    /\ variant = "part_001" /\ req[r].forced = "song"
    /\ req[r].interp.type = "tv" /\ req[r].type = "song"
    /\ req[r].genres = K2 /\ req[r].pc = "search"

\* C10: a request for which a provider call failed never ends with a 2xx
\* status, and its response carries the error.
C10_ProviderFailureFails ==
  \A r \in Slots :
    (req[r].pc = "done" /\ req[r].failed \in {"token", "search", "genrelist", "catalog"})
    => /\ req[r].status >= 400
       /\ req[r].error # "none"

\* C11: a fetch that succeeded with zero items is answered 200 with the
\* message "No results found" (not with an empty list), and that message is
\* sent only when no call of the request failed.
C11_EmptyListIsNoResults ==
  \A r \in Slots :
    LET q == req[r] IN
    (q.pc = "done" /\ variant \in {"server", "recommend"})
    => /\ (q.status = 200 /\ q.nrecs = 0) => q.message = "No results found"
       /\ q.message = "No results found" => q.failed = "none"

\* C12: an OPTIONS request is answered with a 2xx status and no body, a
\* request whose method is neither POST nor OPTIONS with status 405, and
\* neither gets its input validated or a call made.
C12_PreflightAndOtherMethods ==
  \A r \in Slots :
    LET q == req[r] IN
    /\ (q.pc # "idle" /\ q.method = "OPTIONS")
       => /\ q.pc = "done" /\ q.status \in 200..299
          /\ q.error = "none" /\ q.message = "none" /\ q.nrecs = Missing
          /\ q.calls = << >>
    /\ (q.pc # "idle" /\ q.method \notin {"POST", "OPTIONS"})
       => /\ q.pc = "done" /\ q.status = 405
          /\ q.calls = << >>

\* C13: the step in which a token exchange succeeds leaves the returned
\* token in the cache with expiry = now + lifetime * 1000, the lifetime being
\* the response's or 3600 s when the response carries none.
C13_ExpiryIsRefreshPlusLifetime ==
  [][\A r \in Slots :
       (/\ variant \in {"server", "server2", "part_001"}
        /\ req[r].tokCall = "exchange" /\ req'[r].tokCall = "exchanged")
       => /\ spotifyToken' = req'[r].token
          /\ \E lifetime \in (Lifetimes \ {Missing}) \cup {DefaultLifetime} :
               spotifyTokenExpiresAt' = Now + lifetime * 1000]_vars

\* a history row some picked_* field of which is set
HasPick(row) ==
  row.picked_title # SqlNull \/ row.picked_id # SqlNull \/ row.picked_medium # SqlNull

\* C14: a history row is inserted with its picked_* fields null, and they
\* are changed only by the UPDATE of a feedback request that names the row's
\* id and carries a picked id or title, after that request's feedback row
\* was stored.
C14_PickedNullUntilFeedback ==
  /\ [](\A k \in 1..Len(history) :
          HasPick(history[k])
          => \E j \in 1..Len(feedback) : feedback[j].history_id = history[k].id)
  /\ [][/\ Len(history') >= Len(history)
        /\ \A k \in 1..Len(history') :
             IF k > Len(history) THEN ~HasPick(history'[k])
             ELSE history'[k] # history[k]
                  => /\ fbreq.pc = "update" /\ fbreq'.status = 200
                     /\ fbreq.history_id = history[k].id
                     /\ fbreq.picked_id # Undefined \/ fbreq.picked_title # Undefined]_vars

C14_Witness ==
  \E k \in 1..Len(history) :
    /\ history[k].picked_title = "Heat" /\ history[k].picked_id = SqlNull
    /\ fbreq.pc = "done" /\ fbreq.status = 200 /\ fbreq.history_id = history[k].id
    /\ \E j \in 1..Len(feedback) : feedback[j].history_id = history[k].id

\* C15: a step adds at most one history row, and only as the insert of a
\* request answered 200; once some picked_* field of a row is set, no later
\* step changes the row.
C15_PickedUpdatedAtMostOnce ==
  [][/\ Len(history') # Len(history)
        => /\ Len(history') = Len(history) + 1
           /\ \E r \in Slots : /\ req[r].pc = "save" /\ req'[r].pc = "done"
                                /\ req'[r].status = 200
     /\ \A k \in 1..Len(history) :
          HasPick(history[k]) => history'[k] = history[k]]_vars

\* whether a call of this name was made for a request
Made(q, name) == \E k \in 1..Len(q.calls) : q.calls[k] = name

\* C16: for a song only the token exchange and the track search are called,
\* for a movie or a TV show only the catalog (genre list, search, discover).
C16_MediumSelectsProvider ==
  \A r \in Slots :
    LET q == req[r] IN
    /\ q.type = "song"
       => /\ ~Made(q, "catalog") /\ ~Made(q, "genrelist")
          /\ q.url \in {"none", "spotify/search"}
    /\ q.type \in {"movie", "tv"}
       => /\ ~Made(q, "token") /\ ~Made(q, "search")
          /\ q.url # "spotify/search"

C16_Witness ==
  \E r \in Slots :
    /\ req[r].pc = "done" /\ req[r].status = 200 /\ req[r].type = "song"
    /\ Made(req[r], "token") /\ Made(req[r], "search")
    /\ req[r].url = "spotify/search"

\* a request whose completion was not JSON, after the handler read it
Unparsed(q) ==
  /\ variant \in {"server", "server2", "recommend", "part_004"}
  /\ variant = "server" => env.tmdbKey
  /\ Made(q, "completion") /\ q.type # Undefined /\ ~q.json

C18_FailedGetTokenLeavesCache ==
  [][/\ \A r \in Slots :
          (\/ req[r].tokCall = "none" /\ req'[r].tokCall = "nocreds"
           \/ req[r].pc = "token" /\ req'[r].failed = "token")
          => /\ spotifyToken' = spotifyToken
             /\ spotifyTokenExpiresAt' = spotifyTokenExpiresAt
     /\ (spotifyToken' # spotifyToken \/ spotifyTokenExpiresAt' # spotifyTokenExpiresAt)
        => \E r \in Slots :
             /\ req[r].pc = "token" /\ req[r].tokCall = "exchange"
             /\ req'[r].tokCall = "exchanged" /\ req'[r].pc = "search"
             /\ req'[r].token = spotifyToken']_vars

C18_Witness ==
  \E r \in Slots :
    /\ req[r].pc = "done" /\ req[r].failed = "token" /\ req[r].status = 500
    /\ spotifyToken # Null /\ spotifyToken # r

\* C19: in the Express route a request is answered 200 in the step that
\* inserts its history row, after its completion and its provider call
\* succeeded, and the response carries that row's id; a request answered
\* with an error leaves both tables as they were; nothing else adds a row.
C19_HistoryOnlyAfterSuccess ==
  /\ [](\A r \in Slots :
          (req[r].pc = "done" /\ req[r].status = 200)
          => /\ req[r].historyId \in 1..Len(history)
             /\ history[req[r].historyId].id = req[r].historyId
             /\ history[req[r].historyId].type = req[r].type
             /\ history[req[r].historyId].query = req[r].input)
  /\ [][/\ \A r \in Slots :
             (req[r].pc # "done" /\ req'[r].pc = "done")
             => IF req'[r].status = 200
                THEN /\ Len(history') = Len(history) + 1
                     /\ req'[r].historyId = history'[Len(history')].id
                     /\ Made(req[r], "completion")
                     /\ Made(req[r], "search") \/ Made(req[r], "catalog")
                     /\ req[r].failed = "none"
                     /\ feedback' = feedback
                ELSE history' = history /\ feedback' = feedback
        /\ Len(history') # Len(history)
           => \E r \in Slots : req[r].pc = "save" /\ req'[r].status = 200]_vars

C19_Witness ==
  \E r \in Slots :
    /\ req[r].pc = "done" /\ req[r].status = 200 /\ req[r].historyId = 2
    /\ Len(history) = 2 /\ Len(feedback) >= 1

====
